---- MODULE Spec2Model ----
(***************************************************************************)
(* A model of github-follow-sync (src/main.py, src/helpers.py): the token  *)
(* check, the ping, the two paginated collection fetches, the              *)
(* reconciliation of Following against Followers, and the menu loop that   *)
(* applies unfollow / follow batches and updates the in-memory lists.      *)
(*                                                                         *)
(* The remote API and the user at the prompts are the environment: every   *)
(* response status, page content, Link header and prompt answer is chosen  *)
(* with \E from a small set.                                               *)
(***************************************************************************)
EXTENDS Integers, Sequences, FiniteSets, TLC

\* ------------------------------------------------------------------ bounds

\* Longest chain of pages the remote serves for one collection.
MaxPages == 3
\* Most items the remote serves for one collection, over all its pages.
MaxItems == 2
\* Longest input sequence of the stand-alone reconciliation check.
MaxReconLen == 3
\* Longest candidate list of the stand-alone batch check.
MaxBatchLen == 3

\* Account identifiers the remote knows (main specification).
Users == {"a", "b", "c"}
\* Account identifiers of the stand-alone reconciliation check.
ReconUsers == {"a", "b", "c", "d"}

\* ----------------------------------------------------------- environment

\* A collection item: a user object with a "login" key, or an object lacking it.
UserItem(u) == [login |-> u]
NoLoginItem == [message |-> "x"]
Items == {UserItem(u) : u \in Users} \cup {NoLoginItem}

\* Statuses the remote answers: to the ping, to a page GET, to a PUT / DELETE.
PingStatuses == {200, 401, 500}
GetStatuses == {200, 400, 401, 503}
MutStatuses == {200, 204, 401}

\* Every sequence over S of length at most n.
BSeq(S, n) == UNION {[1..k -> S] : k \in 0..n}

\* next_url = None
None == 0

\* One part of a Link header, "<url>; rel=...": the url is the page it names.
LinkPart(url, rel) == [url |-> url, rel |-> rel]

\* The Link header GitHub sends with page p of a collection of `last` pages:
\* prev, next, last, first, each only when it applies; none for a single page.
LinkHeader(p, last) ==
    (IF p > 1 THEN <<LinkPart(p - 1, "prev")>> ELSE <<>>)
    \o (IF p < last THEN <<LinkPart(p + 1, "next"), LinkPart(last, "last")>> ELSE <<>>)
    \o (IF p > 1 THEN <<LinkPart(1, "first")>> ELSE <<>>)

\* A response to a page GET.
Response(status, items, link) == [status |-> status, items |-> items, link |-> link]

\* -------------------------------------------------------------- variables

VARIABLES
    pc,                     \* where main() is
    exit_code,              \* the process's exit status, -1 while it runs
    token,                  \* require_token()'s result
    which,                  \* the endpoint fetch_usernames is fetching
    next_url,               \* iter_paginated: the page to request next, or None
    page,                   \* iter_paginated: its page counter
    usernames,              \* fetch_usernames: the logins gathered so far
    following,              \* main: following
    followers,              \* main: followers
    not_following_me_back,  \* main: not_following_me_back
    not_followed_by_me,     \* main: not_followed_by_me
    chosen,                 \* main: the menu answer
    users,                  \* pick_and_apply: users
    batch_users,            \* batch_unfollow / batch_follow: users
    i,                      \* batch: position of the for loop
    successes,              \* batch: successes
    failures,               \* batch: failures
    success_users,          \* batch: success_users
    success,                \* main: what pick_and_apply returned
    in_sync,                \* the "perfect sync" line was printed
    log,                    \* the requests of the operation in progress, with their statuses
    remote,                 \* the remote collection as a chain of pages (fetch check only)
    fetched,                \* history: the two lists as fetched
    applied                 \* history: <<method, user>> of the mutations earlier batches achieved

vars == <<pc, exit_code, token, which, next_url, page, usernames, following, followers,
          not_following_me_back, not_followed_by_me, chosen, users, batch_users, i,
          successes, failures, success_users, success, in_sync, log, remote, fetched,
          applied>>

fetchVars == <<which, next_url, page, usernames>>
listVars == <<following, followers, not_following_me_back, not_followed_by_me>>
batchVars == <<batch_users, i, successes, failures, success_users>>

\* One request and its answer.
Req(method, target, pg, status) ==
    [method |-> method, target |-> target, page |-> pg, status |-> status]

\* ------------------------------------------------------- helper functions

\* Mutant of NotIn: the membership test inverted, [u for u in xs if u in ys].
NotInInverted(xs, ys) ==
    LET present(u) == \E k \in 1..Len(ys) : ys[k] = u
    IN  SelectSeq(xs, present)

\* [u for u in xs if u not in ys]
NotIn(xs, ys) ==
    LET absent(u) == \A k \in 1..Len(ys) : ys[k] # u
    IN  SelectSeq(xs, absent)

\* [u for u in xs if u not in success_set]
Without(xs, success_set) ==
    LET keep(u) == u \notin success_set
    IN  SelectSeq(xs, keep)

\* set(success)
SetOf(xs) == {xs[k] : k \in 1..Len(xs)}

\* Mutant of AppendNew: the followed users are never added to following.
AppendNewForgotten(fol, succ) == fol

\* for u in success: if u not in following: following.append(u)
RECURSIVE AppendNew(_, _)
AppendNew(fol, succ) ==
    IF succ = <<>> THEN fol
    ELSE AppendNew(IF Head(succ) \in SetOf(fol) THEN fol ELSE Append(fol, Head(succ)),
                   Tail(succ))

\* for item in iter_paginated(...): if "login" in item: usernames.append(item["login"])
RECURSIVE Logins(_)
Logins(items) ==
    IF items = <<>> THEN <<>>
    ELSE (IF "login" \in DOMAIN Head(items) THEN <<Head(items).login>> ELSE <<>>)
         \o Logins(Tail(items))

\* Mutant of NextUrl: only the first part of the Link header is looked at.
NextUrlFirstPart(link) ==
    IF link = <<>> THEN None
    ELSE IF Head(link).rel = "next" THEN Head(link).url
    ELSE None

\* The Link scan of iter_paginated: the url of the first part holding rel="next".
RECURSIVE NextUrl(_)
NextUrl(link) ==
    IF link = <<>> THEN None
    ELSE IF Head(link).rel = "next" THEN Head(link).url
    ELSE NextUrl(Tail(link))

\* Mutant of Unauthorized: the wrong status is compared, 403 for 401.
UnauthorizedIs403(status) == status = 403

\* resp.status_code == 401
Unauthorized(status) == status = 401

\* Mutant of ApiError: > for >=.
ApiErrorAbove400(status) == status > 400

\* resp.status_code >= 400
ApiError(status) == status >= 400

\* batch_unfollow: resp.status_code == 204
UnfollowOk(status) == status = 204

\* Mutant of FollowOk: only 204 counts, as for a DELETE.
FollowOkOnly204(status) == status = 204

\* batch_follow: resp.status_code in (204, 200)
FollowOk(status) == status \in {204, 200}

\* ------------------------------------------------------------------- Init

Init ==
    /\ pc = "start"
    /\ exit_code = -1
    /\ token = ""
    /\ which = ""
    /\ next_url = None
    /\ page = 0
    /\ usernames = <<>>
    /\ following = <<>>
    /\ followers = <<>>
    /\ not_following_me_back = <<>>
    /\ not_followed_by_me = <<>>
    /\ chosen = ""
    /\ users = <<>>
    /\ batch_users = <<>>
    /\ i = 0
    /\ successes = 0
    /\ failures = 0
    /\ success_users = <<>>
    /\ success = <<>>
    /\ in_sync = FALSE
    /\ log = <<>>
    /\ remote = <<>>
    /\ fetched = [following |-> <<>>, followers |-> <<>>]
    /\ applied = {}

\* sys.exit(1)
Fatal ==
    /\ pc' = "exit"
    /\ exit_code' = 1

\* ---------------------------------------------------- start-up and fetch

\* require_token(): a missing or empty TOKEN ends the process with status 1.
RequireToken ==
    /\ pc = "start"
    /\ \E tok \in {"", "pat"} :
        IF tok = ""
        THEN Fatal /\ UNCHANGED token
        ELSE token' = tok /\ pc' = "ping" /\ UNCHANGED exit_code
    /\ UNCHANGED <<fetchVars, listVars, chosen, users, batchVars, success, in_sync, log,
                   remote, fetched, applied>>

\* main: the GET /user ping. 401 is fatal; any other non-200 status is only a warning.
Ping ==
    /\ pc = "ping"
    /\ \E status \in PingStatuses :
        /\ log' = <<Req("GET", "/user", 0, status)>>
        /\ IF status = 200 THEN pc' = "fetch_following" /\ UNCHANGED exit_code
           ELSE IF Unauthorized(status) THEN Fatal
           ELSE pc' = "fetch_following" /\ UNCHANGED exit_code
    /\ UNCHANGED <<token, fetchVars, listVars, chosen, users, batchVars, success, in_sync,
                   remote, fetched, applied>>

\* fetch_usernames(endpoint, token) is entered: url = endpoint?per_page=..&page=1.
StartFetch ==
    /\ pc \in {"fetch_following", "fetch_followers"}
    /\ which' = (IF pc = "fetch_following" THEN "/user/following" ELSE "/user/followers")
    /\ next_url' = 1
    /\ page' = 1
    /\ usernames' = <<>>
    /\ log' = <<>>
    /\ pc' = "fetch"
    /\ UNCHANGED <<exit_code, token, listVars, chosen, users, batchVars, success, in_sync,
                   remote, fetched, applied>>

\* One turn of iter_paginated's while loop, with fetch_usernames consuming what it
\* yields: GET next_url; 401 or any status >= 400 ends the process; otherwise the
\* page's logins are appended and next_url is read from the Link header.
IterPaginated(resp) ==
    /\ pc = "fetch"
    /\ next_url # None
    /\ log' = Append(log, Req("GET", which, next_url, resp.status))
    /\ IF Unauthorized(resp.status) THEN Fatal /\ UNCHANGED <<usernames, next_url, page>>
       ELSE IF ApiError(resp.status) THEN Fatal /\ UNCHANGED <<usernames, next_url, page>>
       ELSE /\ usernames' = usernames \o Logins(resp.items)
            /\ next_url' = NextUrl(resp.link)
            /\ page' = page + 1
            /\ UNCHANGED <<pc, exit_code>>
    /\ UNCHANGED <<token, which, listVars, chosen, users, batchVars, success, in_sync,
                   remote, fetched, applied>>

\* The remote answers the page GET with any status, any items within the bounds,
\* and the Link header of page next_url of a collection of any length.
FetchPage ==
    \E status \in GetStatuses :
      \E items \in BSeq(Items, MaxItems - Len(usernames)) :
        \E last \in next_url..MaxPages :
          IterPaginated(Response(status, items, LinkHeader(next_url, last)))

\* iter_paginated is exhausted: fetch_usernames returns usernames to main, which
\* binds it to following (line 183) or followers (line 184); the operation's log
\* is closed.
FetchReturn ==
    /\ pc = "fetch"
    /\ next_url = None
    /\ IF which = "/user/following"
       THEN /\ following' = usernames
            /\ fetched' = [fetched EXCEPT !.following = usernames]
            /\ pc' = "fetch_followers"
            /\ UNCHANGED followers
       ELSE /\ followers' = usernames
            /\ fetched' = [fetched EXCEPT !.followers = usernames]
            /\ pc' = "reconcile"
            /\ UNCHANGED following
    /\ log' = <<>>
    /\ UNCHANGED <<exit_code, token, fetchVars, not_following_me_back, not_followed_by_me,
                   chosen, users, batchVars, success, in_sync, remote, applied>>

\* main, lines 185-186: the two candidate lists.
Reconcile ==
    /\ pc = "reconcile"
    /\ not_following_me_back' = NotIn(following, followers)
    /\ not_followed_by_me' = NotIn(followers, following)
    /\ pc' = "loop"
    /\ UNCHANGED <<exit_code, token, fetchVars, following, followers, chosen, users,
                   batchVars, success, in_sync, log, remote, fetched, applied>>

\* -------------------------------------------------------------- menu loop

\* Mutant of BothEmpty: or for and.
EitherEmpty == not_following_me_back = <<>> \/ not_followed_by_me = <<>>

\* main, line 189: not not_following_me_back and not not_followed_by_me
BothEmpty == not_following_me_back = <<>> /\ not_followed_by_me = <<>>

\* main, lines 193-204: the menu offers an action only while its list is non-empty.
MenuChoices ==
    (IF not_following_me_back # <<>> THEN {"unfollow"} ELSE {})
    \cup (IF not_followed_by_me # <<>> THEN {"follow"} ELSE {})
    \cup {"exit"}

\* Mutant of Candidates: the fetched lists are handed over, not the candidate lists.
CandidatesUnfiltered(choice) ==
    IF choice = "unfollow" THEN following ELSE followers

\* main, lines 210 and 217: the list handed to pick_and_apply.
Candidates(choice) ==
    IF choice = "unfollow" THEN not_following_me_back ELSE not_followed_by_me

\* The checkbox answer: the values of the ticked choices, in the order listed.
RECURSIVE Ticked(_, _, _)
Ticked(xs, ticks, k) ==
    IF k > Len(xs) THEN <<>>
    ELSE (IF k \in ticks THEN <<xs[k]>> ELSE <<>>) \o Ticked(xs, ticks, k + 1)

\* Top of the while loop: both lists empty prints "perfect sync" and leaves the loop.
LoopTop ==
    /\ pc = "loop"
    /\ IF BothEmpty
       THEN in_sync' = TRUE /\ pc' = "done" /\ exit_code' = 0
       ELSE pc' = "menu" /\ UNCHANGED <<in_sync, exit_code>>
    /\ UNCHANGED <<token, fetchVars, listVars, chosen, users, batchVars, success, log,
                   remote, fetched, applied>>

\* The menu prompt: unfollow / follow enters pick_and_apply with the candidate
\* list; anything else (exit) leaves the loop.
Menu ==
    /\ pc = "menu"
    /\ \E choice \in MenuChoices :
        /\ chosen' = choice
        /\ IF choice \in {"unfollow", "follow"}
           THEN users' = Candidates(choice) /\ pc' = "scope" /\ UNCHANGED exit_code
           ELSE pc' = "done" /\ exit_code' = 0 /\ UNCHANGED users
    /\ UNCHANGED <<token, fetchVars, listVars, batchVars, success, in_sync, log, remote,
                   fetched, applied>>

\* A call has returned: its locals are gone.
NoBatch ==
    /\ batch_users' = <<>>
    /\ i' = 0
    /\ successes' = 0
    /\ failures' = 0
    /\ success_users' = <<>>

\* apply_fn(list, token) is entered: batch_unfollow / batch_follow start their loop.
StartBatch(list) ==
    /\ batch_users' = list
    /\ i' = 1
    /\ successes' = 0
    /\ failures' = 0
    /\ success_users' = <<>>
    /\ log' = <<>>
    /\ pc' = "batch"

\* pick_and_apply, lines 158-170: cancel returns `cancelled`, all applies to every
\* listed user, pick goes on to the checkbox.
PickAndApply(cancelled) ==
    /\ pc = "scope"
    /\ \E decision \in {"all", "pick", "cancel"} :
        IF decision = "cancel"
        THEN success' = cancelled /\ pc' = "ret" /\ users' = <<>> /\ UNCHANGED <<batchVars, log>>
        ELSE IF decision = "all"
        THEN StartBatch(users) /\ UNCHANGED <<success, users>>
        ELSE pc' = "subset" /\ UNCHANGED <<batchVars, log, success, users>>
    /\ UNCHANGED <<exit_code, token, fetchVars, listVars, chosen, in_sync, remote,
                   fetched, applied>>

\* Mutant of Scope: cancel returns the listed users instead of [].
ScopeCancelReturnsUsers == PickAndApply(users)

\* pick_and_apply's scope prompt; cancel returns [].
Scope == PickAndApply(<<>>)

\* pick_and_apply, lines 171-181: no selection returns [], otherwise the ticked
\* users are applied.
Subset ==
    /\ pc = "subset"
    /\ \E ticks \in SUBSET (1..Len(users)) :
        LET picked == Ticked(users, ticks, 1)
        IN  IF picked = <<>>
            THEN success' = <<>> /\ pc' = "ret" /\ users' = <<>> /\ UNCHANGED <<batchVars, log>>
            ELSE StartBatch(picked) /\ UNCHANGED <<success, users>>
    /\ UNCHANGED <<exit_code, token, fetchVars, listVars, chosen, in_sync, remote,
                   fetched, applied>>

\* One turn of a batch's for loop: `method` is sent for batch_users[i] and the
\* user counts as a success when `ok` holds of the answer's status.
BatchTurn(method, ok) ==
    /\ pc = "batch"
    /\ i <= Len(batch_users)
    /\ log' = Append(log, Req(method, batch_users[i], 0, ok[1]))
    /\ IF ok[2]
       THEN /\ successes' = successes + 1
            /\ success_users' = Append(success_users, batch_users[i])
            /\ UNCHANGED failures
       ELSE /\ failures' = failures + 1
            /\ UNCHANGED <<successes, success_users>>
    /\ i' = i + 1
    /\ UNCHANGED <<pc, exit_code, token, fetchVars, listVars, chosen, users, batch_users,
                   success, in_sync, remote, fetched, applied>>

\* batch_unfollow, lines 109-116: DELETE, success on 204.
BatchUnfollow ==
    /\ chosen = "unfollow"
    /\ \E status \in MutStatuses : BatchTurn("DELETE", <<status, UnfollowOk(status)>>)

\* batch_follow, lines 128-135: PUT, success on 204 or 200.
BatchFollow ==
    /\ chosen = "follow"
    /\ \E status \in MutStatuses : BatchTurn("PUT", <<status, FollowOk(status)>>)

\* The batch's loop is over: success_users goes back through pick_and_apply to
\* main; the locals of both calls are gone and the operation's log is closed.
BatchReturn ==
    /\ pc = "batch"
    /\ i > Len(batch_users)
    /\ success' = success_users
    /\ NoBatch
    /\ users' = <<>>
    /\ log' = <<>>
    /\ pc' = "ret"
    /\ UNCHANGED <<exit_code, token, fetchVars, listVars, chosen, in_sync, remote,
                   fetched, applied>>

\* main, lines 211-215 and 218-224: a non-empty success list updates the in-memory
\* lists; either way the loop continues.
Update ==
    /\ pc = "ret"
    /\ IF success = <<>>
       THEN UNCHANGED <<listVars, applied>>
       ELSE IF chosen = "unfollow"
       THEN /\ not_following_me_back' = Without(not_following_me_back, SetOf(success))
            /\ following' = Without(following, SetOf(success))
            /\ applied' = applied \cup {<<"DELETE", u>> : u \in SetOf(success)}
            /\ UNCHANGED <<followers, not_followed_by_me>>
       ELSE /\ not_followed_by_me' = Without(not_followed_by_me, SetOf(success))
            /\ following' = AppendNew(following, success)
            /\ applied' = applied \cup {<<"PUT", u>> : u \in SetOf(success)}
            /\ UNCHANGED <<followers, not_following_me_back>>
    /\ pc' = "loop"
    /\ UNCHANGED <<exit_code, token, fetchVars, chosen, users, batchVars, success,
                   in_sync, log, remote, fetched>>

\* ---------------------------------------------------------- specification

Next ==
    \/ RequireToken
    \/ Ping
    \/ StartFetch
    \/ FetchPage
    \/ FetchReturn
    \/ Reconcile
    \/ LoopTop
    \/ Menu
    \/ Scope
    \/ Subset
    \/ BatchUnfollow
    \/ BatchFollow
    \/ BatchReturn
    \/ Update

Spec == Init /\ [][Next]_vars

\* ------------------------------------------- the fetch against a fixed chain

\* Statuses below 400 the remote answers a page GET with.
PageStatuses == {200, 304}

\* The pages a flat item sequence falls into when cut at cuts[1] <= ... <= cuts[P-1].
Paged(flat, cuts, P) ==
    [k \in 1..P |-> SubSeq(flat, cuts[k - 1] + 1, cuts[k])]

\* Every chain of 1..MaxPages pages holding at most MaxItems items in total.
Chains ==
    UNION { UNION { { Paged(flat, cuts, P) :
                      cuts \in { c \in [0..P -> 0..Len(flat)] :
                                   /\ c[0] = 0
                                   /\ c[P] = Len(flat)
                                   /\ \A k \in 1..P : c[k - 1] <= c[k] } } :
                    flat \in BSeq(Items, MaxItems) } :
            P \in 1..MaxPages }

\* main has passed the ping and is about to fetch following; the remote holds a chain.
InitFetch ==
    /\ pc = "fetch_following"
    /\ exit_code = -1
    /\ token = "pat"
    /\ which = ""
    /\ next_url = None
    /\ page = 0
    /\ usernames = <<>>
    /\ following = <<>>
    /\ followers = <<>>
    /\ not_following_me_back = <<>>
    /\ not_followed_by_me = <<>>
    /\ chosen = ""
    /\ users = <<>>
    /\ batch_users = <<>>
    /\ i = 0
    /\ successes = 0
    /\ failures = 0
    /\ success_users = <<>>
    /\ success = <<>>
    /\ in_sync = FALSE
    /\ log = <<Req("GET", "/user", 0, 200)>>
    /\ remote \in Chains
    /\ fetched = [following |-> <<>>, followers |-> <<>>]
    /\ applied = {}

\* The remote answers the GET of page next_url with that page of its chain and the
\* Link header of that page.
RemotePage ==
    /\ next_url \in 1..Len(remote)
    /\ \E status \in PageStatuses :
        IterPaginated(Response(status, remote[next_url], LinkHeader(next_url, Len(remote))))

NextFetch ==
    \/ pc = "fetch_following" /\ StartFetch
    \/ RemotePage
    \/ which = "/user/following" /\ FetchReturn

SpecFetch == InitFetch /\ [][NextFetch]_vars

\* ------------------------------------------------ the reconciliation alone

\* main is at line 185 with any two fetched lists within the bounds.
InitRecon ==
    /\ pc = "reconcile"
    /\ exit_code = -1
    /\ token = "pat"
    /\ which = "/user/followers"
    /\ next_url = None
    /\ page = 2
    /\ following \in BSeq(ReconUsers, MaxReconLen)
    /\ followers \in BSeq(ReconUsers, MaxReconLen)
    /\ usernames = followers
    /\ not_following_me_back = <<>>
    /\ not_followed_by_me = <<>>
    /\ chosen = ""
    /\ users = <<>>
    /\ batch_users = <<>>
    /\ i = 0
    /\ successes = 0
    /\ failures = 0
    /\ success_users = <<>>
    /\ success = <<>>
    /\ in_sync = FALSE
    /\ log = <<>>
    /\ remote = <<>>
    /\ fetched = [following |-> following, followers |-> followers]
    /\ applied = {}

NextRecon == Reconcile

SpecRecon == InitRecon /\ [][NextRecon]_vars

\* ------------------------------------------------------- the batches alone

\* main is at the scope prompt of its first menu choice: one list was fetched with
\* up to MaxBatchLen identifiers, the other empty, so every identifier is a candidate.
InitBatch ==
    /\ pc = "scope"
    /\ exit_code = -1
    /\ token = "pat"
    /\ which = "/user/followers"
    /\ next_url = None
    /\ page = 2
    /\ chosen \in {"unfollow", "follow"}
    /\ users \in BSeq(Users, MaxBatchLen) \ {<<>>}
    /\ following = (IF chosen = "unfollow" THEN users ELSE <<>>)
    /\ followers = (IF chosen = "follow" THEN users ELSE <<>>)
    /\ usernames = followers
    /\ not_following_me_back = NotIn(following, followers)
    /\ not_followed_by_me = NotIn(followers, following)
    /\ batch_users = <<>>
    /\ i = 0
    /\ successes = 0
    /\ failures = 0
    /\ success_users = <<>>
    /\ success = <<>>
    /\ in_sync = FALSE
    /\ log = <<>>
    /\ remote = <<>>
    /\ fetched = [following |-> following, followers |-> followers]
    /\ applied = {}

NextBatch ==
    \/ Scope
    \/ Subset
    \/ BatchUnfollow
    \/ BatchFollow
    \/ BatchReturn
    \/ Update
    \/ LoopTop
    \/ Menu

SpecBatch == InitBatch /\ [][NextBatch]_vars

\* ------------------------------------------------------------ properties

\* out lists src[j] for exactly the positions j in idx, in increasing order of j.
OrderedSelection(out, src, idx) ==
    /\ Len(out) = Cardinality(idx)
    /\ \A j \in idx : out[Cardinality({m \in idx : m <= j})] = src[j]

\* out is xs without the elements that occur in ys, order kept.
IsDifference(out, xs, ys) ==
    OrderedSelection(out, xs, {j \in 1..Len(xs) : \A k \in 1..Len(ys) : ys[k] # xs[j]})

NoDuplicates(xs) == \A j, k \in 1..Len(xs) : xs[j] = xs[k] => j = k

\* All items of a chain of pages, in cross-page order.
RECURSIVE FlatItems(_)
FlatItems(chain) ==
    IF chain = <<>> THEN <<>> ELSE Head(chain) \o FlatItems(Tail(chain))

\* The collection endpoints.
Collections == {"/user/following", "/user/followers"}

\* main is in or past its while loop.
InLoop == pc \in {"loop", "menu", "scope", "subset", "batch", "ret", "done"}

\* iter_paginated has left its while loop and fetch_usernames is about to return.
FetchExhausted == pc = "fetch" /\ next_url = None

\* The requests of the fetch in progress are GETs of pages 1, 2, ... of `which`,
\* each answered below 400, and never more than the chain has pages.
GetsFollowChain ==
    /\ Len(log) <= Len(remote)
    /\ \A k \in 1..Len(log) :
        /\ log[k].method = "GET"
        /\ log[k].target = which
        /\ log[k].page = k
        /\ log[k].status < 400

\* usernames holds the login of every chain item that has one, in cross-page order.
ReturnsLogins(result) ==
    LET flat == FlatItems(remote)
    IN  OrderedSelection(result, [j \in 1..Len(flat) |->
                                    IF "login" \in DOMAIN flat[j] THEN flat[j].login ELSE ""],
                         {j \in 1..Len(flat) : "login" \in DOMAIN flat[j]})

\* C1 (as stated): over a chain of P successful pages holding N items the fetch
\* issues exactly P GETs in chain order and returns exactly the N items in order.
C1_ReturnsAllItems ==
    /\ pc = "fetch" => GetsFollowChain
    /\ FetchExhausted =>
        /\ Len(log) = Len(remote)
        /\ Len(usernames) = Len(FlatItems(remote))
        /\ ReturnsLogins(usernames)

\* C1 (amended): over a chain of P successful pages the fetch issues exactly P GETs,
\* one per page in chain order, and returns the login of every item that carries
\* a "login" key, in cross-page order: all N items when each has one, none for N = 0.
C1_ReturnsLoginsOfChain ==
    /\ pc = "fetch" => GetsFollowChain
    /\ FetchExhausted =>
        /\ Len(log) = Len(remote)
        /\ ReturnsLogins(usernames)
        /\ ((\A j \in 1..Len(FlatItems(remote)) : "login" \in DOMAIN FlatItems(remote)[j])
              => Len(usernames) = Len(FlatItems(remote)))
    /\ pc = "fetch_followers" => ReturnsLogins(following)

\* C1 witness: a chain of three pages holding two user items was fetched with three GETs.
C1_Witness ==
    /\ FetchExhausted
    /\ Len(remote) = 3
    /\ Len(log) = 3
    /\ remote[1] = <<UserItem("a")>>
    /\ remote[2] = <<>>
    /\ remote[3] = <<UserItem("b")>>
    /\ usernames = <<"a", "b">>

\* Request k of the operation in progress is a collection page GET answered >= 400.
FetchErrorAt(k) ==
    /\ log[k].method = "GET"
    /\ log[k].target \in Collections
    /\ log[k].status >= 400

\* C2: a page GET of either collection answered 401 or any status >= 400 is the last
\* request of the run: the process is at exit with status 1, the list of that
\* endpoint was never bound, the reconciliation never ran, and nothing follows.
C2_FetchErrorHalts ==
    /\ [](\A k \in 1..Len(log) :
            FetchErrorAt(k) =>
              /\ k = Len(log)
              /\ pc = "exit"
              /\ exit_code = 1
              /\ log[k].target = which
              /\ which = "/user/following" => following = <<>> /\ fetched.following = <<>>
              /\ followers = <<>> /\ fetched.followers = <<>>
              /\ not_following_me_back = <<>> /\ not_followed_by_me = <<>>
              /\ applied = {})
    /\ [][pc # "exit"]_vars

\* C2 witness: the second page of followers answered 400 after following was fetched.
C2_Witness ==
    /\ pc = "exit"
    /\ exit_code = 1
    /\ Len(log) = 2
    /\ log[2] = Req("GET", "/user/followers", 2, 400)
    /\ following = <<"a", "b">>
    /\ usernames = <<"c">>

\* C3: the reconciliation yields the elements of Following absent from Followers and
\* the elements of Followers absent from Following, each in the order of its source,
\* so neither candidate list meets the other source.
C3_Reconciliation ==
    pc = "loop" =>
        /\ IsDifference(not_following_me_back, following, followers)
        /\ IsDifference(not_followed_by_me, followers, following)
        /\ SetOf(not_following_me_back) \cap SetOf(followers) = {}
        /\ SetOf(not_followed_by_me) \cap SetOf(following) = {}
        /\ SetOf(not_following_me_back) = SetOf(following) \ SetOf(followers)
        /\ SetOf(not_followed_by_me) = SetOf(followers) \ SetOf(following)

\* C3 witness: [a,b,c] and [b,c,d] gave [a] and [d].
C3_Witness ==
    /\ pc = "loop"
    /\ following = <<"a", "b", "c">>
    /\ followers = <<"b", "c", "d">>
    /\ not_following_me_back = <<"a">>
    /\ not_followed_by_me = <<"d">>

\* The method of the batch in progress and the statuses that count as a success.
BatchMethod == IF chosen = "unfollow" THEN "DELETE" ELSE "PUT"
BatchSuccess(status) ==
    IF chosen = "unfollow" THEN status = 204 ELSE status = 200 \/ status = 204

\* C4: a batch sends one request per input identifier, in input order, whatever the
\* answers; its success list is the identifiers answered with a success code
\* (DELETE: 204; PUT: 200 or 204) in input order; successes + failures is the number
\* sent; and it returns only when every identifier was sent, with that success list.
C4_BatchPerItem ==
    /\ [](pc = "batch" =>
            /\ Len(log) = i - 1
            /\ Len(log) <= Len(batch_users)
            /\ \A k \in 1..Len(log) :
                 log[k].method = BatchMethod /\ log[k].target = batch_users[k]
            /\ OrderedSelection(success_users, batch_users,
                                {k \in 1..Len(log) : BatchSuccess(log[k].status)})
            /\ successes = Len(success_users)
            /\ successes + failures = Len(log))
    /\ [][pc = "batch" /\ pc' # "batch" =>
            /\ pc' = "ret"
            /\ Len(log) = Len(batch_users)
            /\ successes + failures = Len(batch_users)
            /\ success' = success_users]_vars

\* C4 witness: three identifiers, the second DELETE failed, two succeeded.
C4_Witness ==
    /\ pc = "batch"
    /\ batch_users = <<"a", "b", "c">>
    /\ Len(log) = 3
    /\ log[1].status = 204 /\ log[2].status = 401 /\ log[3].status = 204
    /\ log[1].method = "DELETE"
    /\ success_users = <<"a", "c">>
    /\ successes = 2
    /\ failures = 1

\* C5 (as stated): a 401 answer to any request is fatal: it is the last request and
\* the process is at exit.
C5_Any401Fatal ==
    \A k \in 1..Len(log) :
        log[k].status = 401 => k = Len(log) /\ pc = "exit" /\ exit_code = 1

\* C5 (amended): a 401 answer to the ping or to a collection page GET is the last
\* request and the process exits with status 1; a 401 answer to a PUT or DELETE of a
\* batch is not fatal: the identifier counts as a failure and the batch goes on.
C5_401FatalOnGet ==
    \A k \in 1..Len(log) :
        log[k].status = 401 =>
            IF log[k].method = "GET"
            THEN k = Len(log) /\ pc = "exit" /\ exit_code = 1
            ELSE /\ pc = "batch"
                 /\ exit_code = -1
                 /\ failures >= Cardinality({m \in 1..Len(log) : log[m].status = 401})

\* C5 witness: the ping was answered 401 and the process is at exit.
C5_Witness ==
    /\ pc = "exit"
    /\ exit_code = 1
    /\ log = <<Req("GET", "/user", 0, 401)>>

\* C6: once both lists are fetched, neither holds an identifier twice and neither
\* candidate list holds an identifier that is in both.
C6_NoDuplicateIdentifiers ==
    (InLoop \/ pc = "reconcile") =>
        /\ NoDuplicates(following)
        /\ NoDuplicates(followers)
        /\ SetOf(not_following_me_back) \cap (SetOf(following) \cap SetOf(followers)) = {}
        /\ SetOf(not_followed_by_me) \cap (SetOf(following) \cap SetOf(followers)) = {}

\* C7: the loop ends only at its top with both candidate lists empty (reported as in
\* sync) or at the menu by the exit choice; with both lists empty at the top it ends
\* at once, no menu is shown and no request is sent; and every unfollow / follow
\* choice leads through the prompts and the batch back to the top of the loop only.
C7_MenuLoop ==
    /\ [](/\ pc = "menu" =>
               not_following_me_back # <<>> \/ not_followed_by_me # <<>>
          /\ in_sync =>
               pc = "done" /\ not_following_me_back = <<>> /\ not_followed_by_me = <<>>
          /\ pc = "done" => exit_code = 0 /\ (in_sync \/ chosen = "exit"))
    /\ [][/\ (pc = "loop" /\ not_following_me_back = <<>> /\ not_followed_by_me = <<>>)
               => pc' = "done" /\ in_sync' /\ log' = log
          /\ pc' = "done" =>
               \/ pc = "loop" /\ not_following_me_back = <<>> /\ not_followed_by_me = <<>>
               \/ pc = "menu" /\ chosen' = "exit"
          /\ (pc = "menu" /\ chosen' # "exit") => pc' = "scope"
          /\ pc = "scope" => pc' \in {"subset", "batch", "ret"}
          /\ pc = "subset" => pc' \in {"batch", "ret"}
          /\ pc = "batch" => \/ pc' = "batch" /\ i' = i + 1 /\ i <= Len(batch_users)
                             \/ pc' = "ret"
          /\ pc = "ret" => pc' = "loop"]_vars

\* C7 witness: batches emptied both candidate lists and the loop ended in sync.
C7_Witness ==
    /\ pc = "done"
    /\ in_sync
    /\ chosen # "exit"
    /\ applied # {}
    /\ fetched.following # <<>>
    /\ fetched.followers # <<>>

\* C8: cancel at the scope prompt and an empty selection at the checkbox return []
\* without any request being sent, and a return of [] (those two, or a batch whose
\* every item failed) leaves the four lists as they were when the loop resumes.
C8_NoActionFrame ==
    [][/\ (pc \in {"scope", "subset"} /\ pc' = "ret") =>
            /\ success' = <<>>
            /\ log' = log
            /\ log = <<>>
            /\ UNCHANGED listVars
       /\ (pc = "batch" /\ pc' = "ret" /\ failures = Len(batch_users)) =>
            /\ success' = <<>>
            /\ UNCHANGED listVars
       /\ (pc = "ret" /\ success = <<>>) =>
            /\ pc' = "loop"
            /\ log' = log
            /\ log = <<>>
            /\ UNCHANGED listVars]_vars

\* C8 witness: a return of [] is pending with both candidate lists non-empty.
C8_Witness ==
    /\ pc = "ret"
    /\ success = <<>>
    /\ not_following_me_back # <<>>
    /\ not_followed_by_me # <<>>

\* C9: in the loop the candidate lists are what the reconciliation yields from the
\* current in-memory lists; a succeeded unfollow leaves Following and its candidate
\* list, a succeeded follow leaves its candidate list and is in Following, and the
\* identifiers that did not succeed stay in their candidate list.
C9_ListsStayReconciled ==
    /\ [](InLoop =>
            /\ IsDifference(not_following_me_back, following, followers)
            /\ IsDifference(not_followed_by_me, followers, following))
    /\ [][(pc = "ret" /\ success # <<>>) =>
            IF chosen = "unfollow"
            THEN /\ SetOf(following') = SetOf(following) \ SetOf(success)
                 /\ SetOf(not_following_me_back')
                      = SetOf(not_following_me_back) \ SetOf(success)
                 /\ UNCHANGED <<followers, not_followed_by_me>>
            ELSE /\ SetOf(following') = SetOf(following) \cup SetOf(success)
                 /\ SetOf(not_followed_by_me')
                      = SetOf(not_followed_by_me) \ SetOf(success)
                 /\ UNCHANGED <<followers, not_following_me_back>>]_vars

\* C9 witness: back at the menu after an unfollow and a follow succeeded, with a
\* candidate still waiting.
C9_Witness ==
    /\ pc = "menu"
    /\ \E u, v \in Users : <<"DELETE", u>> \in applied /\ <<"PUT", v>> \in applied
    /\ not_following_me_back # <<>>

\* C10: a DELETE is sent only for an identifier fetched in Following and absent from
\* the fetched Followers, a PUT only for one fetched in Followers and absent from
\* the fetched Following; no identifier is sent a mutation an earlier batch achieved
\* for it; and the candidate lists never grow, and shrink with every success list.
C10_MutationsOnlyForCandidates ==
    /\ [](\A k \in 1..Len(log) :
            /\ log[k].method = "DELETE" =>
                 /\ log[k].target \in SetOf(fetched.following) \ SetOf(fetched.followers)
                 /\ <<"DELETE", log[k].target>> \notin applied
            /\ log[k].method = "PUT" =>
                 /\ log[k].target \in SetOf(fetched.followers) \ SetOf(fetched.following)
                 /\ <<"PUT", log[k].target>> \notin applied)
    /\ [][InLoop =>
            /\ Len(not_following_me_back') + Len(not_followed_by_me')
                 <= Len(not_following_me_back) + Len(not_followed_by_me)
            /\ (pc = "ret" /\ success # <<>>) =>
                 Len(not_following_me_back') + Len(not_followed_by_me')
                   < Len(not_following_me_back) + Len(not_followed_by_me)]_vars

\* C10 witness: a second batch is sending after an earlier one succeeded.
C10_Witness ==
    /\ pc = "batch"
    /\ applied # {}
    /\ Len(log) = 2
    /\ log[1].method = "PUT"

====
